---- MODULE Spec2Model ----
(***************************************************************************)
(* Model of reddit_fetch/generate_tokens.py: the OAuth2 authorization-code  *)
(* capture flow (get_tokens), its one-shot callback listener                *)
(* (start_auth_server / AuthHandler.do_GET) and the token file check        *)
(* (load_existing_tokens); of the request of validate_credentials.py        *)
(* (SpecProbe) and of config.exponential_backoff (SpecBackoff).             *)
(*                                                                         *)
(* Strings that the code transforms (environment values, query values) are  *)
(* sequences of characters, so that str.strip() is computed.  The token     *)
(* file and HTTP bodies are abstract JSON values.                           *)
(***************************************************************************)
EXTENDS Integers, Sequences, FiniteSets, TLC

\* ---------------------------------------------------------------- bounds
\* Number of get_tokens runs (calls in one process or fresh processes).
MaxRuns == 2

\* ------------------------------------------------------------ str.strip()
\* Python's None, comparable with the character sequences.
None == <<"None">>

RECURSIVE lstrip(_)
lstrip(s) == IF s # <<>> /\ Head(s) = " " THEN lstrip(Tail(s)) ELSE s

RECURSIVE rstrip(_)
rstrip(s) == IF s # <<>> /\ s[Len(s)] = " " THEN rstrip(SubSeq(s, 1, Len(s) - 1)) ELSE s

strip(s) == rstrip(lstrip(s))

\* Values a variable of the .env file can hold (raw, before .strip()).
EnvValues == { <<>>, <<" ">>, <<"a">>, <<" ", "a", " ">> }

\* ------------------------------------------------------------- JSON values
Absent == [kind |-> "absent"]
Invalid == [kind |-> "invalid"]
JNumber == [kind |-> "number"]
JNull == [kind |-> "null"]
JList(items) == [kind |-> "list", items |-> items]
JObject(fields) == [kind |-> "object", fields |-> fields]

NoFields == [k \in {} |-> ""]
OneField(k, v) == [x \in {k} |-> v]

\* Token files the program can find on disk when it starts.
InitialFiles ==
    { Absent,
      Invalid,
      JNumber,
      JNull,
      JList(<<>>),
      JList(<<"refresh_token">>),
      JObject(NoFields),
      JObject(OneField("access_token", "a_1")),
      JObject(OneField("refresh_token", "")),
      JObject(OneField("refresh_token", "r_old")) }

\* Python's  "refresh_token" in tokens  on a parsed JSON value:
\* "True" / "False", or "TypeError" when the value is not a container.
Contains(tokens, key) ==
    CASE tokens.kind = "object" -> IF key \in DOMAIN tokens.fields THEN "True" ELSE "False"
      [] tokens.kind = "list" ->
            IF \E i \in 1..Len(tokens.items) : tokens.items[i] = key THEN "True" ELSE "False"
      [] OTHER -> "TypeError"

\* load_existing_tokens(): "True", "False", or the exception that escapes.
load_existing_tokens(file) ==
    IF file.kind = "absent" THEN "False"
    ELSE IF file.kind = "invalid" THEN "False"
    ELSE Contains(file, "refresh_token")

\* ------------------------------------------------- inbound HTTP requests
\* A request is the query string of the GET: a sequence of <<key, value>>.
Requests ==
    { << <<"code", <<"a">> >>, <<"state", <<"R">> >> >>,
      << <<"error", <<"d">> >> >>,
      << <<"code", <<" ", "a", " ">> >> >>,
      << <<"code", <<>> >> >>,
      << <<"code", <<" ">> >> >>,
      << <<"state", <<"R">> >>, <<"code", <<"b">> >>, <<"code", <<"a">> >> >> }

\* parse_qs(query)[key]: the values of key in order, blank values dropped
\* (keep_blank_values is False); <<>> when the key is not in the result.
RECURSIVE parse_qs(_, _)
parse_qs(query, key) ==
    IF query = <<>> THEN <<>>
    ELSE IF Head(query)[1] = key /\ Head(query)[2] # <<>>
         THEN <<Head(query)[2]>> \o parse_qs(Tail(query), key)
         ELSE parse_qs(Tail(query), key)

\* ---------------------------------------------- query strings as text
\* A query string is a sequence of characters; fixed words of the program
\* text (names, constant values) are single elements.  A configured value
\* can hold "&", as in http://localhost:8080/cb?x=1&y=2.
UriValues == EnvValues \cup { <<"a", "&", "b">> }

RECURSIVE SplitOn(_, _)
SplitOn(s, c) ==
    IF s = <<>> THEN << <<>> >>
    ELSE LET r == SplitOn(Tail(s), c) IN
         IF Head(s) = c THEN << <<>> >> \o r
         ELSE << <<Head(s)>> \o r[1] >> \o Tail(r)

RECURSIVE Before(_, _)
Before(s, c) ==
    IF s = <<>> \/ Head(s) = c THEN <<>> ELSE <<Head(s)>> \o Before(Tail(s), c)

RECURSIVE After(_, _)
After(s, c) ==
    IF s = <<>> THEN <<>> ELSE IF Head(s) = c THEN Tail(s) ELSE After(Tail(s), c)

\* Percent-encoding of a form value (requests encodes the data dict) and
\* its decoding by the reader of a query string.
quote_plus(s) ==
    [i \in 1..Len(s) |->
        CASE s[i] = "&" -> "%26" [] s[i] = "=" -> "%3D" [] s[i] = " " -> "+"
          [] OTHER -> s[i]]

unquote_plus(s) ==
    [i \in 1..Len(s) |->
        CASE s[i] = "%26" -> "&" [] s[i] = "%3D" -> "=" [] s[i] = "+" -> " "
          [] OTHER -> s[i]]

\* The name of a field: a word of the program text, or some other name.
FieldName(k) == IF Len(k) = 1 THEN k[1] ELSE "_"

\* parse_qsl: the text split at "&", each field split at its first "=".
parse_qsl(text) ==
    LET fields == SplitOn(text, "&") IN
    [i \in 1..Len(fields) |->
        << FieldName(Before(fields[i], "=")), unquote_plus(After(fields[i], "=")) >>]

\* Lines 69-72: the query of the authorization URL, the values put in as
\* they are.
AuthorizeQuery(client_id, redirect_uri) ==
    <<"client_id", "=">> \o client_id
      \o <<"&", "response_type", "=", "code", "&", "state", "=", "RANDOM_STRING",
           "&", "redirect_uri", "=">> \o redirect_uri
      \o <<"&", "duration", "=", "permanent", "&", "scope", "=",
           "identity history read save">>

\* Lines 89-95: the form body requests.post makes of the data dict.
urlencode(d) ==
    <<"grant_type", "=", "authorization_code", "&", "code", "=">> \o quote_plus(d.code)
      \o <<"&", "redirect_uri", "=">> \o quote_plus(d.redirect_uri)

\* ------------------------------------------- token endpoint responses
TokenBody ==
    [k \in {"refresh_token", "access_token", "expires_in"} |->
        CASE k = "refresh_token" -> "r_xyz"
          [] k = "access_token" -> "a_1"
          [] OTHER -> "3600"]

Responses ==
    { [status |-> 200, body |-> JObject(TokenBody)],
      [status |-> 200, body |-> JObject(OneField("access_token", "a_1"))],
      [status |-> 200, body |-> Invalid],
      [status |-> 401, body |-> JObject(OneField("error", "invalid_grant"))],
      [status |-> 429, body |-> JObject(OneField("message", "Too Many Requests"))],
      [status |-> 500, body |-> Invalid] }

NoResponse == [status |-> 0, body |-> Absent]
NoUrl == None
NoData == [code |-> None, redirect_uri |-> None, client_id |-> None,
           client_secret |-> None, user_agent |-> None]

Runs == 1..MaxRuns

VARIABLES
    CLIENT_ID, CLIENT_SECRET, REDIRECT_URI, USER_AGENT, \* module globals
    tokenFile,          \* content of TOKEN_FILE on disk
    auth_code,          \* module global auth_code
    pc,                 \* position of the thread running get_tokens
    threads,            \* state of the listener thread started by each run
    run,                \* number of the current get_tokens run
    fileAtStart,        \* token file when the current run started
    loadRet,            \* what load_existing_tokens gave the current run
    authorization_url,  \* query of the URL opened in the current run
    data,               \* form data of the POST built in the current run
    posts,              \* token-exchange POSTs sent in the current run
    response,           \* response received in the current run
    inbound,            \* request handled by the current run's listener
    httpStatus,         \* status the current run's listener answered
    outcome,            \* what the current run printed last / raised
    codeRun,            \* run whose listener stored the value of auth_code
    dataRun,            \* codeRun of the code read at line 91 in this run
    sent,               \* codeRun of every code posted in this process
    readerSaw,          \* file content a concurrent reader found in this run
    handoff,            \* reads and writes of auth_code in the current run
    probe,              \* run of validate_credentials.py
    backoff             \* call of exponential_backoff

config == <<CLIENT_ID, CLIENT_SECRET, REDIRECT_URI, USER_AGENT>>
history == <<fileAtStart, loadRet, authorization_url, data, posts, response,
             inbound, httpStatus, outcome>>
ownership == <<codeRun, dataRun, sent>>
tools == <<probe, backoff>>
vars == <<config, tokenFile, auth_code, pc, threads, run, history, ownership,
          readerSaw, handoff, tools>>

Unread == [kind |-> "unread"]
NoHandoff == [reads |-> 0, writes |-> 0]
NoProbe == [pc |-> "idle"]
NoBackoff == [pc |-> "idle"]

\* The listening socket on ("localhost", 8080) is held by a thread from
\* the HTTPServer constructor until the server object is dropped.
Bound(t) == threads[t] \in {"serving", "responding", "closing"}
PortBound == \E t \in Runs : Bound(t)

FreshHistory ==
    /\ fileAtStart' = tokenFile
    /\ loadRet' = "none"
    /\ authorization_url' = NoUrl
    /\ data' = NoData
    /\ posts' = 0
    /\ response' = NoResponse
    /\ inbound' = <<>>
    /\ httpStatus' = 0
    /\ outcome' = "none"
    /\ dataRun' = 0
    /\ readerSaw' = Unread
    /\ handoff' = NoHandoff

\* Import of the module in a fresh process, then the call of get_tokens.
Init ==
    /\ \E e \in EnvValues : CLIENT_ID = strip(e)
    /\ \E e \in EnvValues : CLIENT_SECRET = strip(e)
    /\ \E e \in UriValues : REDIRECT_URI = strip(e)
    /\ \E e \in EnvValues : USER_AGENT = strip(e)
    /\ tokenFile \in InitialFiles
    /\ auth_code = None
    /\ pc = "start"
    /\ threads = [t \in Runs |-> "none"]
    /\ run = 1
    /\ fileAtStart = tokenFile
    /\ loadRet = "none"
    /\ authorization_url = NoUrl
    /\ data = NoData
    /\ posts = 0
    /\ response = NoResponse
    /\ inbound = <<>>
    /\ httpStatus = 0
    /\ outcome = "none"
    /\ codeRun = 0
    /\ dataRun = 0
    /\ sent = <<>>
    /\ readerSaw = Unread
    /\ handoff = NoHandoff
    /\ probe = NoProbe
    /\ backoff = NoBackoff

\* ------------------------------------------------ get_tokens (main thread)
\* CheckExisting without the early return of line 64.
CheckExisting_NoReturn ==
    /\ pc = "start"
    /\ loadRet' = load_existing_tokens(tokenFile)
    /\ CASE loadRet' \in {"True", "False"} ->
              /\ pc' = "browser"
              /\ threads' = [threads EXCEPT ![run] = "starting"]
              /\ UNCHANGED outcome
         [] OTHER ->
              /\ pc' = "raised"
              /\ outcome' = loadRet'
              /\ UNCHANGED threads
    /\ UNCHANGED <<tools, readerSaw, handoff, ownership, config, tokenFile, auth_code, run, fileAtStart,
                   authorization_url, data, posts, response, inbound, httpStatus>>

\* Lines 60-67: the check of the stored record, then the listener thread.
CheckExisting ==
    /\ pc = "start"
    /\ loadRet' = load_existing_tokens(tokenFile)
    /\ CASE loadRet' = "True" ->
              /\ pc' = "returned"
              /\ outcome' = "NoReauth"
              /\ UNCHANGED threads
         [] loadRet' = "False" ->
              /\ pc' = "browser"
              /\ threads' = [threads EXCEPT ![run] = "starting"]
              /\ UNCHANGED outcome
         [] OTHER ->
              /\ pc' = "raised"
              /\ outcome' = loadRet'
              /\ UNCHANGED threads
    /\ UNCHANGED <<tools, readerSaw, handoff, ownership, config, tokenFile, auth_code, run, fileAtStart,
                   authorization_url, data, posts, response, inbound, httpStatus>>

\* Lines 69-75: build the authorization URL and open it.
OpenBrowser ==
    /\ pc = "browser"
    /\ authorization_url' = AuthorizeQuery(CLIENT_ID, REDIRECT_URI)
    /\ pc' = "wait"
    /\ UNCHANGED <<tools, readerSaw, handoff, ownership, config, tokenFile, auth_code, threads, run, fileAtStart, loadRet,
                   data, posts, response, inbound, httpStatus, outcome>>

\* Lines 77-78: the polling loop ends once auth_code is not None.  An
\* iteration that finds None sleeps and changes nothing.
WaitForCode ==
    /\ pc = "wait"
    /\ auth_code # None
    /\ handoff' = [handoff EXCEPT !.reads = @ + 1]
    /\ pc' = "build"
    /\ UNCHANGED <<tools, readerSaw, ownership, config, tokenFile, auth_code, threads, run, history>>

\* Lines 80-93: headers and form data of the token exchange.
BuildRequest ==
    /\ pc = "build"
    /\ data' = [code |-> auth_code, redirect_uri |-> REDIRECT_URI,
                client_id |-> CLIENT_ID, client_secret |-> CLIENT_SECRET,
                user_agent |-> USER_AGENT]
    /\ dataRun' = codeRun
    /\ handoff' = [handoff EXCEPT !.reads = @ + 1]
    /\ pc' = "post"
    /\ UNCHANGED <<tools, readerSaw, codeRun, sent, config, tokenFile, auth_code, threads, run, fileAtStart, loadRet,
                   authorization_url, posts, response, inbound, httpStatus, outcome>>

\* Line 95: requests.post returns a response or raises.
PostExchange ==
    /\ pc = "post"
    /\ posts' = posts + 1
    /\ sent' = Append(sent, dataRun)
    /\ \/ \E r \in Responses :
              /\ response' = r
              /\ pc' = "classify"
              /\ UNCHANGED outcome
       \/ /\ pc' = "raised"
          /\ outcome' = "ConnectionError"
          /\ UNCHANGED response
    /\ UNCHANGED <<tools, readerSaw, handoff, codeRun, dataRun, config, tokenFile, auth_code, threads, run, fileAtStart, loadRet,
                   authorization_url, data, inbound, httpStatus>>

\* ClassifyResponse that sends the exchange again after a failure.
ClassifyResponse_RetryOnFailure ==
    /\ pc = "classify"
    /\ IF response.status = 200
       THEN IF response.body.kind = "invalid"
            THEN pc' = "raised" /\ outcome' = "JSONDecodeError"
            ELSE IF Contains(response.body, "refresh_token") = "True"
                 THEN pc' = "open" /\ UNCHANGED outcome
                 ELSE pc' = "raised" /\ outcome' = "KeyError"
       ELSE /\ pc' = "post"
            /\ outcome' = IF response.status = 401 THEN "AuthFailed401" ELSE "AuthFailed"
    /\ UNCHANGED <<tools, readerSaw, handoff, ownership, config, tokenFile, auth_code,
                   threads, run, fileAtStart, loadRet, authorization_url, data, posts,
                   response, inbound, httpStatus>>

\* ClassifyResponse that removes the stored record when the exchange fails.
ClassifyResponse_ClearOnFailure ==
    /\ pc = "classify"
    /\ IF response.status = 200
       THEN /\ IF response.body.kind = "invalid"
               THEN pc' = "raised" /\ outcome' = "JSONDecodeError"
               ELSE IF Contains(response.body, "refresh_token") = "True"
                    THEN pc' = "open" /\ UNCHANGED outcome
                    ELSE pc' = "raised" /\ outcome' = "KeyError"
            /\ UNCHANGED tokenFile
       ELSE /\ pc' = "returned"
            /\ outcome' = IF response.status = 401 THEN "AuthFailed401" ELSE "AuthFailed"
            /\ tokenFile' = Absent
    /\ UNCHANGED <<tools, readerSaw, handoff, ownership, config, auth_code, threads, run, fileAtStart, loadRet,
                   authorization_url, data, posts, response, inbound, httpStatus>>

\* Lines 97-101 and 107-125: the branch on the status code.  On 401 the
\* failure line is followed by the "Common causes of 401 Unauthorized" hints.
ClassifyResponse ==
    /\ pc = "classify"
    /\ IF response.status = 200
       THEN IF response.body.kind = "invalid"
            THEN pc' = "raised" /\ outcome' = "JSONDecodeError"
            ELSE IF Contains(response.body, "refresh_token") = "True"
                 THEN pc' = "open" /\ UNCHANGED outcome
                 ELSE pc' = "raised" /\ outcome' = "KeyError"
       ELSE /\ pc' = "returned"
            /\ outcome' = IF response.status = 401 THEN "AuthFailed401" ELSE "AuthFailed"
    /\ UNCHANGED <<tools, readerSaw, handoff, ownership, config, tokenFile, auth_code, threads, run, fileAtStart, loadRet,
                   authorization_url, data, posts, response, inbound, httpStatus>>

\* Line 103: open(TOKEN_FILE, "w") truncates the file, or raises.
OpenTokenFile ==
    /\ pc = "open"
    /\ \/ /\ tokenFile' = Invalid
          /\ pc' = "dump"
          /\ UNCHANGED outcome
       \/ /\ pc' = "raised"
          /\ outcome' = "OSError"
          /\ UNCHANGED tokenFile
    /\ UNCHANGED <<tools, readerSaw, handoff, ownership, config, auth_code, threads, run, fileAtStart, loadRet,
                   authorization_url, data, posts, response, inbound, httpStatus>>

\* token_data that keeps every field of the response.
token_data_WholeResponse == response.body.fields

\* Line 101: what is stored.
token_data == OneField("refresh_token", response.body.fields["refresh_token"])

\* Lines 104-106: json.dump and the close of the file.
DumpTokenFile ==
    /\ pc = "dump"
    /\ tokenFile' = JObject(token_data)
    /\ outcome' = "Saved"
    /\ pc' = "returned"
    /\ UNCHANGED <<tools, readerSaw, handoff, ownership, config, auth_code, threads, run, fileAtStart, loadRet,
                   authorization_url, data, posts, response, inbound, httpStatus>>

\* ------------------------------------------------ listener thread of run t
\* Line 43: HTTPServer(("localhost", 8080), AuthHandler) binds the port;
\* the thread dies with OSError when the port is held.
ServerBind(t) ==
    /\ threads[t] = "starting"
    /\ threads' = [threads EXCEPT ![t] = IF PortBound THEN "dead" ELSE "serving"]
    /\ UNCHANGED <<tools, readerSaw, handoff, ownership, config, tokenFile, auth_code, pc, run, history>>

\* Lines 45 and 27-31, 36-39: handle_request takes one request; do_GET
\* stores the code, or answers 400.
DoGet(t) ==
    /\ threads[t] = "serving"
    /\ \E req \in Requests :
          LET query_components == parse_qs(req, "code") IN
            /\ IF query_components # <<>>
               THEN /\ auth_code' = strip(query_components[1])
                    /\ codeRun' = t
                    /\ handoff' = [handoff EXCEPT !.writes = @ + 1]
                    /\ threads' = [threads EXCEPT ![t] = "responding"]
                    /\ UNCHANGED httpStatus
               ELSE /\ threads' = [threads EXCEPT ![t] = "closing"]
                    /\ httpStatus' = IF t = run THEN 400 ELSE httpStatus
                    /\ UNCHANGED <<auth_code, codeRun, handoff>>
            /\ inbound' = IF t = run THEN req ELSE inbound
    /\ UNCHANGED <<tools, readerSaw, dataRun, sent, config, tokenFile, pc, run, fileAtStart, loadRet,
                   authorization_url, data, posts, response, outcome>>

\* Lines 32-35: the 200 answer after the code is stored.
Respond200(t) ==
    /\ threads[t] = "responding"
    /\ threads' = [threads EXCEPT ![t] = "closing"]
    /\ httpStatus' = IF t = run THEN 200 ELSE httpStatus
    /\ UNCHANGED <<tools, readerSaw, handoff, ownership, config, tokenFile, auth_code, pc, run, fileAtStart, loadRet,
                   authorization_url, data, posts, response, inbound, outcome>>

\* A listener that goes back to accept the next request (serve_forever).
ServerClose_ServeForever(t) ==
    /\ threads[t] = "closing"
    /\ threads' = [threads EXCEPT ![t] = "serving"]
    /\ UNCHANGED <<tools, readerSaw, handoff, ownership, config, tokenFile, auth_code, pc, run, history>>

\* Line 45: handle_request returns, start_auth_server returns and the
\* server object with its socket is dropped.
ServerClose(t) ==
    /\ threads[t] = "closing"
    /\ threads' = [threads EXCEPT ![t] = "done"]
    /\ UNCHANGED <<tools, readerSaw, handoff, ownership, config, tokenFile, auth_code, pc, run, history>>

\* ---------------------------------------------------------- further runs
Ended == pc \in {"returned", "raised"}

\* Lines 127-128: exit status of the script once get_tokens has ended: 0
\* when it returned, 1 when an exception escaped.
ExitStatus == IF pc = "raised" THEN 1 ELSE 0

\* The phase of the run, in the words of the state machine of get_tokens.
Phase ==
    CASE pc = "start" -> "CheckExisting"
      [] pc \in {"browser", "wait"} -> "AwaitingUserConsent"
      [] pc \in {"build", "post", "classify", "open", "dump"} -> "ExchangingToken"
      [] pc = "returned" /\ outcome = "NoReauth" -> "done"
      [] pc = "returned" /\ outcome = "Saved" -> "Persisted"
      [] OTHER -> "Failed"

\* get_tokens is called again in the same process: the module globals and
\* the daemon threads stay as they are.
CallAgain ==
    /\ Ended
    /\ run < MaxRuns
    /\ run' = run + 1
    /\ pc' = "start"
    /\ FreshHistory
    /\ UNCHANGED <<tools, config, tokenFile, auth_code, threads, codeRun, sent>>

\* The process ends (after get_tokens ended, or interrupted in the wait)
\* and the program is run again: daemon threads are gone, the port is
\* free and the module is imported afresh.
NewProcess ==
    /\ Ended \/ pc = "wait"
    /\ run < MaxRuns
    /\ run' = run + 1
    /\ pc' = "start"
    /\ auth_code' = None
    /\ codeRun' = 0
    /\ sent' = <<>>
    /\ threads' = [t \in Runs |-> "none"]
    /\ FreshHistory
    /\ UNCHANGED <<tools, config, tokenFile>>

\* Lines 49-52 in another process: a run of get_tokens started while this
\* one is under way opens and reads the token file.
ConcurrentLoad ==
    /\ readerSaw = Unread
    /\ readerSaw' = tokenFile
    /\ UNCHANGED <<config, tokenFile, auth_code, pc, threads, run, history,
                   ownership, handoff, tools>>

Orchestrator ==
    \/ CheckExisting
    \/ OpenBrowser
    \/ WaitForCode
    \/ BuildRequest
    \/ PostExchange
    \/ ClassifyResponse
    \/ OpenTokenFile
    \/ DumpTokenFile

Listener(t) ==
    \/ ServerBind(t)
    \/ DoGet(t)
    \/ Respond200(t)
    \/ ServerClose(t)

Next ==
    \/ Orchestrator
    \/ \E t \in Runs : Listener(t)
    \/ CallAgain
    \/ NewProcess
    \/ ConcurrentLoad

Spec == Init /\ [][Next]_vars

\* The threads of the process are scheduled fairly; the arrival of a
\* request (DoGet) and further runs depend on the user and are not.
FairSpec ==
    /\ Spec
    /\ WF_vars(Orchestrator)
    /\ \A t \in Runs : WF_vars(ServerBind(t) \/ Respond200(t) \/ ServerClose(t))

TypeOK ==
    /\ pc \in {"start", "browser", "wait", "build", "post", "classify", "open",
                "dump", "returned", "raised"}
    /\ run \in Runs
    /\ posts \in 0..1
    /\ threads \in [Runs -> {"none", "starting", "serving", "responding", "closing",
                               "dead", "done"}]

\* ============================================ validate_credentials.py
\* Lines 44 and 64: the least length of an identifier that is not
\* "Too short".
MinLength == 10

Word(n) == [i \in 1..n |-> "a"]

\* Values of CLIENT_ID and CLIENT_SECRET in the .env file the validator reads.
ProbeEnvValues ==
    { <<>>,
      <<"a">>,
      Word(MinLength),
      <<" ">> \o Word(MinLength) \o <<" ">>,
      Word(MinLength \div 2) \o <<" ">> \o Word(MinLength \div 2) }

\* Lines 40-49 and 60-69: the issues found in an identifier.
Issues(value) ==
    IF value = <<>> THEN {"MISSING"}
    ELSE (IF Len(value) < MinLength THEN {"Too short"} ELSE {})
         \cup (IF \E i \in 1..Len(value) : value[i] = " " THEN {"Contains spaces"} ELSE {})
         \cup (IF value # strip(value) THEN {"Has leading/trailing whitespace"} ELSE {})

\* Answers of the token endpoint to the client_credentials request; json
\* says whether the content-type header starts with application/json.
ProbeResponses ==
    { [status |-> 200, json |-> TRUE, body |-> JObject(OneField("access_token", "a_1"))],
      [status |-> 200, json |-> FALSE, body |-> Invalid],
      [status |-> 401, json |-> TRUE, body |-> JObject(OneField("message", "Unauthorized"))],
      [status |-> 401, json |-> FALSE, body |-> Invalid],
      [status |-> 401, json |-> TRUE, body |-> Invalid],
      [status |-> 429, json |-> FALSE, body |-> Invalid],
      [status |-> 500, json |-> FALSE, body |-> Invalid] }

mainVars == <<config, tokenFile, auth_code, pc, threads, run, history, ownership,
              readerSaw, handoff>>

\* The validator is started: generate_tokens is not running.
InitProbe ==
    /\ CLIENT_ID = <<>> /\ CLIENT_SECRET = <<>> /\ REDIRECT_URI = <<>> /\ USER_AGENT = <<>>
    /\ tokenFile \in InitialFiles
    /\ auth_code = None
    /\ pc = "start"
    /\ threads = [t \in Runs |-> "none"]
    /\ run = 1
    /\ fileAtStart = tokenFile
    /\ loadRet = "none"
    /\ authorization_url = NoUrl
    /\ data = NoData
    /\ posts = 0
    /\ response = NoResponse
    /\ inbound = <<>>
    /\ httpStatus = 0
    /\ outcome = "none"
    /\ codeRun = 0
    /\ dataRun = 0
    /\ sent = <<>>
    /\ readerSaw = Unread
    /\ handoff = NoHandoff
    /\ backoff = NoBackoff
    /\ \E id \in ProbeEnvValues, secret \in ProbeEnvValues, agent \in EnvValues :
          probe = [pc |-> "start", client_id |-> strip(id),
                   client_secret |-> strip(secret), user_agent |-> strip(agent),
                   requests |-> 0, response |-> NoResponse, panels |-> <<>>]

\* Lines 131-155, 195-209: the request is sent when both identifiers are
\* present and without issues; a request-level failure is reported at once.
ProbeRequest ==
    /\ probe.pc = "start"
    /\ IF /\ probe.client_id # <<>> /\ probe.client_secret # <<>>
          /\ Issues(probe.client_id) = {} /\ Issues(probe.client_secret) = {}
       THEN \/ \E r \in ProbeResponses :
                 probe' = [probe EXCEPT !.pc = "responded", !.requests = @ + 1,
                                        !.response = r]
            \/ probe' = [probe EXCEPT !.pc = "done", !.requests = @ + 1,
                                      !.panels = <<"NETWORK ERROR">>]
       ELSE probe' = [probe EXCEPT !.pc = "done", !.panels = <<"CANNOT TEST">>]
    /\ UNCHANGED <<mainVars, backoff>>

\* The panel an exception of response.json() ends in: requests raises its
\* own JSONDecodeError, a RequestException (line 195), or in older versions
\* a plain ValueError (line 202).
JsonErrorPanels == {"NETWORK ERROR", "ERROR"}

\* Lines 157-207: the branch on the status code, inside the try block.
ProbeClassify ==
    /\ probe.pc = "responded"
    /\ LET r == probe.response IN
       CASE r.status = 200 ->
              IF r.body.kind = "invalid"
              THEN \E e \in JsonErrorPanels :
                      probe' = [probe EXCEPT !.pc = "done", !.panels = <<"SUCCESS", e>>]
              ELSE probe' = [probe EXCEPT !.pc = "done", !.panels = <<"SUCCESS">>]
         [] r.status = 401 ->
              IF r.json /\ r.body.kind = "invalid"
              THEN \E e \in JsonErrorPanels :
                      probe' = [probe EXCEPT !.pc = "done", !.panels = <<e>>]
              ELSE probe' = [probe EXCEPT !.pc = "done",
                                          !.panels = <<"AUTHENTICATION FAILED">>]
         [] OTHER ->
              probe' = [probe EXCEPT !.pc = "done", !.panels = <<"UNEXPECTED RESPONSE">>]
    /\ UNCHANGED <<mainVars, backoff>>

NextProbe ==
    \/ ProbeRequest
    \/ ProbeClassify

SpecProbe == InitProbe /\ [][NextProbe]_vars

\* ================================================= exponential_backoff
\* Largest attempt of the small range tried.
MaxAttempt == 6

\* Largest delay tried; the default max_delay of line 16 is 16.0.
MaxDelay == 16

\* 2 ** n for n >= FloatMaxExp does not convert to a float: the product
\* of a float base_delay and the int 2 ** attempt raises OverflowError.
FloatMaxExp == 1024

Attempts == 0..MaxAttempt \cup {FloatMaxExp}

RECURSIVE Pow2(_)
Pow2(n) == IF n = 0 THEN 1 ELSE 2 * Pow2(n - 1)

Min(x, y) == IF x <= y THEN x ELSE y

\* Line 18: delay = min(base_delay * (2 ** attempt), max_delay), with
\* base_delay a float (as the default 1.0) or an int.  The large attempt
\* is tried with a float base_delay only.
exponential_backoff(attempt, base_delay, max_delay, is_float) ==
    IF is_float /\ attempt >= FloatMaxExp
    THEN [raised |-> TRUE, delay |-> 0]
    ELSE [raised |-> FALSE, delay |-> Min(base_delay * Pow2(attempt), max_delay)]

\* A call of exponential_backoff while nothing else runs.
InitBackoff ==
    /\ CLIENT_ID = <<>> /\ CLIENT_SECRET = <<>> /\ REDIRECT_URI = <<>> /\ USER_AGENT = <<>>
    /\ tokenFile \in {Absent, JObject(OneField("refresh_token", "r_old"))}
    /\ auth_code = None
    /\ pc = "start"
    /\ threads = [t \in Runs |-> "none"]
    /\ run = 1
    /\ fileAtStart = tokenFile
    /\ loadRet = "none"
    /\ authorization_url = NoUrl
    /\ data = NoData
    /\ posts = 0
    /\ response = NoResponse
    /\ inbound = <<>>
    /\ httpStatus = 0
    /\ outcome = "none"
    /\ codeRun = 0
    /\ dataRun = 0
    /\ sent = <<>>
    /\ readerSaw = Unread
    /\ handoff = NoHandoff
    /\ probe = NoProbe
    /\ \E attempt \in Attempts, base_delay \in 1..MaxDelay :
          \E max_delay \in base_delay..MaxDelay,
             is_float \in (IF attempt < FloatMaxExp THEN BOOLEAN ELSE {TRUE}) :
             backoff = [pc |-> "call", attempt |-> attempt, base_delay |-> base_delay,
                        max_delay |-> max_delay, is_float |-> is_float,
                        raised |-> FALSE, slept |-> 0]

\* Lines 18-19: the delay is computed and slept.
Backoff ==
    /\ backoff.pc = "call"
    /\ LET r == exponential_backoff(backoff.attempt, backoff.base_delay,
                                    backoff.max_delay, backoff.is_float) IN
       backoff' = [backoff EXCEPT !.pc = "done", !.raised = r.raised, !.slept = r.delay]
    /\ UNCHANGED <<mainVars, probe>>

SpecBackoff == InitBackoff /\ [][Backoff]_vars

\* ================================================================ claims
RequestCodes == parse_qs(inbound, "code")
Handled == threads[run] \in {"responding", "closing", "done"}

\* C1: a run that finds load_existing_tokens True returns at once: it has
\* started no listener, opened no URL, sent no POST, and the token file is
\* what it was when the run started; in every run of a sequence of runs.
C1_IdempotentRerun ==
    loadRet = "True" =>
        /\ pc = "returned"
        /\ outcome = "NoReauth"
        /\ threads[run] = "none"
        /\ authorization_url = NoUrl
        /\ posts = 0
        /\ data = NoData
        /\ tokenFile = fileAtStart

\* A second run that finds the record the first run saved.
C1_Witness ==
    /\ run = 2
    /\ loadRet = "True"
    /\ pc = "returned"
    /\ tokenFile = JObject(OneField("refresh_token", "r_xyz"))

\* C2: when the request handled by the run's listener carries a code, the
\* code sent in the run's token exchange is the code of that request (the
\* first code value, as the handler trims it).
C2_CodeOfRequestIsSent ==
    (Handled /\ RequestCodes # <<>> /\ data # NoData) =>
        data.code = strip(RequestCodes[1])

\* C3: after the listener answered 400 to a request without a code, the run
\* reaches a terminal failure without having sent a token exchange.
C3_MissingCodeFails ==
    (httpStatus = 400) ~>
        (httpStatus = 400 /\ posts = 0 /\
            (pc = "raised" \/ (pc = "returned" /\ outcome \notin {"Saved", "NoReauth"})))

\* C4: a run that waits for the code ends with the port released, unless a
\* request reaches its listener (or the user ends the process).
C4_TimeoutReleasesPort ==
    (pc = "wait") ~> (Handled \/ (Ended /\ ~PortBound) \/ pc = "start")

\* C5: after a run that received 200 with refresh_token r returned, the
\* token file is exactly the object {"refresh_token": r}.
C5_OnlyRefreshTokenStored ==
    (pc = "returned" /\ response.status = 200) =>
        /\ Contains(response.body, "refresh_token") = "True"
        /\ tokenFile = JObject(OneField("refresh_token",
                                        response.body.fields["refresh_token"]))

\* A returned run that overwrote an earlier record with the one field.
C5_Witness ==
    /\ pc = "returned"
    /\ response = [status |-> 200, body |-> JObject(TokenBody)]
    /\ fileAtStart = JObject(OneField("access_token", "a_1"))
    /\ tokenFile = JObject(OneField("refresh_token", "r_xyz"))

\* C6: the token file differs from what it was at the start of the run only
\* in a run that received a 200 response; a run that received 401 and
\* returned has printed the 401 Unauthorized diagnosis.
C6_WrittenOnlyOn200 ==
    /\ tokenFile # fileAtStart => response.status = 200
    /\ (response.status = 401 /\ pc = "returned") => outcome = "AuthFailed401"

\* A run that got 401 and left an existing file as it was.
C6_Witness ==
    /\ pc = "returned"
    /\ response.status = 401
    /\ outcome = "AuthFailed401"
    /\ fileAtStart = JObject(NoFields)
    /\ tokenFile = fileAtStart

\* The record the specification calls valid.
ValidRecord(f) ==
    /\ f.kind = "object"
    /\ "refresh_token" \in DOMAIN f.fields
    /\ f.fields["refresh_token"] # ""

\* C7: load_existing_tokens returns True exactly for a file that is an
\* object with a non-empty refresh_token.
C7_TrueIffValidRecord ==
    loadRet # "none" => (loadRet = "True" <=> ValidRecord(fileAtStart))

Malformed(f) ==
    \/ f.kind \in {"invalid", "number", "null", "list"}
    \/ f.kind = "object" /\ "refresh_token" \notin DOMAIN f.fields

\* C8: on a malformed token file load_existing_tokens returns False without
\* raising and the run goes on to the consent step.
C8_MalformedIsAbsent ==
    (loadRet # "none" /\ Malformed(fileAtStart)) =>
        /\ loadRet = "False"
        /\ pc # "raised"
        /\ threads[run] # "none"

\* C9: a run that received 200 without refresh_token ends with the
\* classified failure MalformedResponse and an unchanged token file.
C9_MalformedResponseClassified ==
    (Ended /\ response.status = 200 /\ response.body.kind = "object"
           /\ "refresh_token" \notin DOMAIN response.body.fields) =>
        /\ outcome = "MalformedResponse"
        /\ tokenFile = fileAtStart

ConfigInvalid ==
    \E field \in {CLIENT_ID, CLIENT_SECRET, REDIRECT_URI, USER_AGENT} : field = <<>>

\* C10: with an empty configuration field a run without a stored record
\* fails with ConfigInvalid before the listener is started, the URL is
\* opened or a token exchange is sent.
C10_ConfigInvalidFailsFast ==
    (ConfigInvalid /\ loadRet = "False") =>
        /\ threads[run] = "none"
        /\ authorization_url = NoUrl
        /\ posts = 0
        /\ pc = "raised" \/ pc = "returned"
        /\ outcome = "ConfigInvalid"

\* C11: every code read for a token exchange was stored by the listener of
\* the same run, and no stored code is posted in more than one exchange of
\* the process.
C11_CodeOwnedByRunAndSentOnce ==
    /\ pc \in {"post", "classify", "open", "dump"} \/ posts = 1 => dataRun = run
    /\ \A i, j \in 1..Len(sent) : sent[i] = sent[j] => i = j

\* C12: a run that ended exits with status zero exactly when it persisted
\* the record or found a valid one; every failed run exits non-zero.
C12_ExitStatusSignalsFailure ==
    Ended => (ExitStatus = 0 <=> outcome \in {"Saved", "NoReauth"})

\* C13: once a listener has taken its request it never accepts another one:
\* it does not return to serving, and the request recorded for the run's
\* listener stays the same for the rest of the run.
C13_ListenerOneShot ==
    [][\A t \in Runs :
          threads[t] \in {"responding", "closing", "done"} =>
              /\ threads'[t] \in {"responding", "closing", "done", "none"}
              /\ (t = run /\ run' = run) => inbound' = inbound]_vars

\* The run's listener has handled its request and is gone while the run
\* is still going on.
C13_Witness ==
    /\ threads[run] = "done"
    /\ httpStatus = 200
    /\ pc = "classify"

\* C14: the redirect_uri a reader finds in the token-exchange body is the
\* redirect_uri a reader finds in the authorization URL of the same run.
C14_SameRedirectUri ==
    data # NoData =>
        parse_qs(parse_qsl(urlencode(data)), "redirect_uri")
            = parse_qs(parse_qsl(authorization_url), "redirect_uri")

\* C15: a concurrent reader finds the complete record the run started with
\* or the complete record the run writes, never anything else.
C15_ReaderSeesWholeRecord ==
    readerSaw # Unread =>
        \/ readerSaw = fileAtStart
        \/ /\ response.status = 200
           /\ Contains(response.body, "refresh_token") = "True"
           /\ readerSaw = JObject(token_data)

\* C18: within a run auth_code is written at most once by a listener and
\* read at most once by the thread running get_tokens.
C18_SingleWriteSingleRead ==
    /\ handoff.writes <= 1
    /\ handoff.reads <= 1

Edges ==
    { <<"CheckExisting", "done">>,
      <<"CheckExisting", "AwaitingUserConsent">>,
      <<"AwaitingUserConsent", "ExchangingToken">>,
      <<"ExchangingToken", "Persisted">>,
      <<"ExchangingToken", "Failed">> }

\* C17: within a run the phase changes only along the edges of the state
\* machine, a POST is sent only when a code is stored, and the token file is
\* written only after a 200 response.
C17_PhasesFollowEdges ==
    [][run' = run =>
          /\ Phase' # Phase => <<Phase, Phase'>> \in Edges
          /\ posts' # posts => auth_code # None
          /\ tokenFile' # tokenFile => response.status = 200]_vars

\* C19: a run sends at most one token-exchange POST; once the exchange has
\* been answered or has failed, the run is past the POST and only ends.
C19_NoRetry ==
    /\ posts <= 1
    /\ (response # NoResponse \/ outcome = "ConnectionError") =>
           /\ posts = 1
           /\ pc \in {"classify", "open", "dump", "returned", "raised"}

\* A run that ended after its one exchange was refused.
C19_Witness ==
    /\ pc = "returned"
    /\ response.status = 500
    /\ outcome = "AuthFailed"
    /\ posts = 1

\* C16: a finished probe that sent its request shows the one panel of its
\* outcome (SUCCESS on 200, AUTHENTICATION FAILED on 401, NETWORK ERROR on
\* a request-level failure, UNEXPECTED RESPONSE otherwise), has sent one
\* request, and the token file is as it was.
C16_ProbeClassifies ==
    (probe.pc = "done" /\ probe.requests > 0) =>
        /\ probe.requests = 1
        /\ tokenFile = fileAtStart
        /\ probe.panels =
              << CASE probe.response = NoResponse -> "NETWORK ERROR"
                   [] probe.response.status = 200 -> "SUCCESS"
                   [] probe.response.status = 401 -> "AUTHENTICATION FAILED"
                   [] OTHER -> "UNEXPECTED RESPONSE" >>

\* C20: a finished call has slept min(base_delay * 2^attempt, max_delay):
\* never more than max_delay, max_delay itself from the attempt at which
\* base_delay * 2^attempt reaches it, no less than the attempt before would
\* have slept, and it has left the token file alone.
C20_BackoffCapped ==
    backoff.pc = "done" =>
        /\ ~backoff.raised
        /\ backoff.slept = Min(backoff.base_delay * Pow2(backoff.attempt), backoff.max_delay)
        /\ backoff.slept <= backoff.max_delay
        /\ backoff.base_delay * Pow2(backoff.attempt) >= backoff.max_delay
              => backoff.slept = backoff.max_delay
        /\ backoff.attempt > 0 =>
              backoff.slept >= Min(backoff.base_delay * Pow2(backoff.attempt - 1),
                                   backoff.max_delay)
        /\ tokenFile = fileAtStart

====
